---- MODULE Spec2Model ----
(***************************************************************************)
(* State-machine model of the stocks "top mover" ingestion pipeline:       *)
(*   - lambdas/ingest_mover/app.py  (primary per-day handler)              *)
(*   - scripts/backfill_to_7_days.py (historical backfill script)          *)
(*                                                                         *)
(* Units.  Time is counted in ticks of 0.25 s (so the jitter              *)
(* random.uniform(0, 0.25) is a draw from 0..1 ticks, 12.5 s = 50 ticks).  *)
(* Prices are integers in units of 0.001 (scale 3), percent changes in     *)
(* units of 0.000001 percent (scale 6).  Calendar dates "YYYY-MM-DD" are   *)
(* day numbers (the string order of ISO dates is the order of day          *)
(* numbers); bar timestamps are epoch milliseconds.                        *)
(*                                                                         *)
(* Abstractions.  Percent changes are computed on exact rationals, where   *)
(* the code uses float64; time.time() is taken to be monotonic and         *)
(* time.sleep(x) to last exactly x.                                        *)
(***************************************************************************)
EXTENDS Integers, Sequences, FiniteSets, TLC

VARIABLES
    cfg,      \* environment of the run: env vars, CLI args, what upstream may answer
    store,    \* the DynamoDB table: a set of items
    pc,       \* each invocation's position
    now,      \* each invocation's reading of time.time()
    limiter,  \* each invocation's SmoothRateLimiter instance
    fetch,    \* each invocation's state of the retrying fetcher
    hs,       \* locals of handler()
    bs,       \* locals of main() of the backfill script
    result,   \* what the invocation returned or raised
    obs       \* observations (history) of each invocation

vars == <<cfg, store, pc, now, limiter, fetch, hs, bs, result, obs>>

----------------------------------------------------------------------------
(* Program constants *)

WATCHLIST == <<"AAPL", "MSFT", "GOOGL", "AMZN", "TSLA", "NVDA">>

MsPerDay == 86400000

JitterMax == 1

Handlers == {"h1", "h2"}

Backfills == {"b1"}

Procs == Handlers \cup Backfills

----------------------------------------------------------------------------
(* Bounds of the model *)

MaxAttemptsBound == 4

\* Largest --days explored
MaxDays == 3

\* Largest number of bars in the range answer to the date discovery
MaxSeriesLen == 3

\* Largest MAX_ATTEMPTS explored where only the backoff schedule matters
BackoffAttemptsBound == 5

----------------------------------------------------------------------------
(* Arithmetic helpers *)

Abs(x) == IF x < 0 THEN -x ELSE x

Min(a, b) == IF a <= b THEN a ELSE b

Max(a, b) == IF a >= b THEN a ELSE b

\* Python's round(x, places) on a float: to nearest, exact halves to even.
\* n/d with d > 0.
RoundHalfEven(n, d) ==
    LET q == n \div d
        r == n % d
    IN  IF 2 * r < d THEN q
        ELSE IF 2 * r > d THEN q + 1
        ELSE IF q % 2 = 0 THEN q ELSE q + 1

\* Decimal.quantize(..., rounding=ROUND_HALF_UP): to nearest, halves away from 0.
RoundHalfUp(n, d) ==
    LET q == Abs(n) \div d
        r == Abs(n) % d
        m == IF 2 * r >= d THEN q + 1 ELSE q
    IN  IF n < 0 THEN -m ELSE m

\* round(x, places) of a value x held in units of 10^-scale.
PyRound(x, scale, places) ==
    IF places >= scale THEN x
    ELSE LET m == 10 ^ (scale - places) IN RoundHalfEven(x, m) * m

\* _to_ddb_number(x, places) of a value x held in units of 10^-scale.
ToDdbNumber(x, scale, places) ==
    IF places >= scale THEN x
    ELSE LET m == 10 ^ (scale - places) IN RoundHalfUp(x, m) * m

\* datetime.fromtimestamp(ms / 1000, tz=utc).strftime("%Y-%m-%d")
DateStr(ts_ms) == ts_ms \div MsPerDay

----------------------------------------------------------------------------
(* Upstream API: what one HTTP request may be answered with *)

NoBar == [t |-> 0, o |-> 0, c |-> 0]

\* One response: HTTP status (0: no HTTP response, a transport error or a
\* timeout), whether the body parses as JSON, the document's "status" field
\* being "OK", and its results array.
Resp(status, json, apiOK, results) ==
    [status |-> status, json |-> json, apiOK |-> apiOK, results |-> results]

Bar(d, off, o, c) == [t |-> d * MsPerDay + off, o |-> o, c |-> c]

\* The answers that carry no bar.  Under cfg.transientOnly upstream has
\* recovered by the last attempt of a fetch.
FailureResponses(attempt) ==
    IF cfg.transientOnly /\ attempt >= cfg.max_attempts THEN {}
    ELSE { Resp(s, FALSE, FALSE, <<>>) : s \in cfg.statuses \ {200} }
         \cup (IF 200 \in cfg.statuses /\ cfg.badBodies
               THEN {Resp(200, FALSE, FALSE, <<>>), Resp(200, TRUE, TRUE, <<>>),
                     Resp(200, TRUE, FALSE, <<NoBar>>)}
               ELSE {})

\* Answers to GET /v2/aggs/ticker/{symbol}/prev
PrevResponses(symbol, attempt) ==
    FailureResponses(attempt) \cup
    (IF 200 \in cfg.statuses
     THEN { Resp(200, TRUE, TRUE, <<Bar(d, cfg.barOffset, b.o, b.c)>>) :
              d \in cfg.prevDates, b \in cfg.market[symbol] }
     ELSE {})

\* Answers to GET /v2/aggs/ticker/{symbol}/range/1/day/{d}/{d}
DayResponses(symbol, d, attempt) ==
    FailureResponses(attempt) \cup
    (IF 200 \in cfg.statuses
     THEN { Resp(200, TRUE, TRUE, <<Bar(d + k, cfg.barOffset, b.o, b.c)>>) :
              k \in cfg.skews, b \in cfg.market[symbol] }
     ELSE {})

\* Answers to GET /v2/aggs/ticker/AAPL/range/1/day/{start}/{end}
RangeResponses(attempt) ==
    FailureResponses(attempt) \cup
    (IF 200 \in cfg.statuses
     THEN { Resp(200, TRUE, TRUE,
                 [i \in 1..Len(s) |-> Bar(s[i], cfg.barOffset, 1, 1)]) :
              s \in cfg.series }
     ELSE {})

----------------------------------------------------------------------------
(* SmoothRateLimiter *)

\* __init__: min_interval = max(0.0, float(x)); next_allowed = time.time()
NewLimiter(spacing, t) ==
    [min_interval |-> Max(0, spacing), next_allowed |-> t]

\* _sleep_jitter(seconds): time.sleep(max(0.0, seconds) + random.uniform(0, 0.25))
SleepJitter(seconds, jitter) == Max(0, seconds) + jitter

\* The time at which acquire() reads now2, entered at time t.
AcquireWake(lim, t, jitter) ==
    IF t < lim.next_allowed
    THEN t + SleepJitter(lim.next_allowed - t, jitter)
    ELSE t

\* Mutant: the next slot is counted from the previous slot, not from now2
AcquireSet_FromSchedule(lim, now2) ==
    [lim EXCEPT !.next_allowed = lim.next_allowed + lim.min_interval]

\* self.next_allowed = now2 + self.min_interval
AcquireSet(lim, now2) ==
    [lim EXCEPT !.next_allowed = now2 + lim.min_interval]

NoTime == 0 - 1

NoItem == [pk |-> "", sk |-> 0, Date |-> 0, Ticker |-> "", PercentChange |-> 0,
           ClosingPrice |-> 0]

ObsBar(sym, o, c) == [sym |-> sym, o |-> o, c |-> c]

NewObs ==
    [acqCount |-> 0, firstAcq |-> NoTime, prevAcq |-> NoTime, lastAcq |-> NoTime,
     prevReq |-> NoTime, lastReq |-> NoTime,
     fetched |-> <<>>, failed |-> FALSE, bad |-> {}, written |-> {},
     sawExisting |-> FALSE, conflict |-> FALSE,
     bars |-> <<>>, lastPut |-> [item |-> NoItem, bars |-> <<>>]]

ObsAcquire(o, t) ==
    [o EXCEPT !.acqCount = @ + 1,
              !.firstAcq = IF o.acqCount = 0 THEN t ELSE @,
              !.prevAcq = o.lastAcq,
              !.lastAcq = t]

ObsRequest(o, t) ==
    [o EXCEPT !.prevReq = o.lastReq, !.lastReq = t]

----------------------------------------------------------------------------
(* The retrying fetcher *)

\* State of one logical fetch: the attempt the loop is at, the responses
\* received so far, the sleeps (before jitter) taken so far, how it ended.
NewFetch(symbol, date) ==
    [symbol |-> symbol, date |-> date, attempt |-> 1, hist |-> <<>>,
     sleeps |-> <<>>, state |-> "running", data |-> Resp(0, FALSE, FALSE, <<>>)]

IdleFetch == [NewFetch("", 0) EXCEPT !.state = "idle"]

\* Mutant: the backoff is not capped
Backoff_Uncapped(base, attempt, max_backoff) == base * (2 ^ (attempt - 1))

\* min(max_backoff, base * (2 ** (attempt - 1)))
Backoff(base, attempt, max_backoff) == Min(max_backoff, base * (2 ^ (attempt - 1)))

Act(act, sleep) == [act |-> act, sleep |-> sleep]

\* Mutant: the loop retries whether or not attempts remain
PrimaryPolicy_AlwaysRetry(r, attempt) ==
    IF r.status = 200 /\ r.json THEN Act("return", 0)
    ELSE Act("retry", Backoff(cfg.base_5xx, attempt, cfg.max_backoff))

\* One iteration of the loop of _fetch_json_with_retries (primary handler):
\* what the loop does with the response r of attempt number `attempt`.
PrimaryPolicy(r, attempt) ==
    IF r.status = 200 /\ r.json THEN Act("return", 0)
    ELSE IF r.status \notin {0, 200} THEN
        \* except urllib.error.HTTPError
        IF r.status = 429 /\ attempt < cfg.max_attempts
        THEN Act("retry", Backoff(cfg.base_429, attempt, cfg.max_backoff))
        ELSE IF r.status \in {500, 502, 503, 504} /\ attempt < cfg.max_attempts
        THEN Act("retry", Backoff(cfg.base_5xx, attempt, cfg.max_backoff))
        ELSE Act("raise", 0)
    ELSE
        \* except Exception: transport error, timeout, malformed JSON
        IF attempt < cfg.max_attempts
        THEN Act("retry", Backoff(cfg.base_5xx, attempt, cfg.max_backoff))
        ELSE Act("raise", 0)

\* One HTTP attempt of the fetch in progress: the request goes out at now[p],
\* the response r arrives `delay` later and the policy acts on it; a retry
\* sleeps (with jitter) and moves to the next attempt.
Attempt(p, r, delay, jitter, a) ==
    /\ fetch' = [fetch EXCEPT ![p] =
          [@ EXCEPT !.hist = Append(@, [status |-> r.status, json |-> r.json]),
                    !.sleeps = IF a.act = "retry" THEN Append(@, a.sleep) ELSE @,
                    !.attempt = IF a.act = "retry" THEN @ + 1 ELSE @,
                    !.state = CASE a.act = "retry" -> "running"
                                [] a.act = "return" -> "returned"
                                [] OTHER -> "failed",
                    !.data = IF a.act = "return" THEN r ELSE @]]
    /\ now' = [now EXCEPT ![p] =
          @ + delay + (IF a.act = "retry" THEN SleepJitter(a.sleep, jitter) ELSE 0)]

----------------------------------------------------------------------------
(* Results of an invocation *)

NoBody == [none |-> TRUE]

NoResult == [kind |-> "none", statusCode |-> 0, body |-> NoBody, error |-> ""]

Returned(body) ==
    [kind |-> "returned", statusCode |-> 200, body |-> body, error |-> ""]

Raised(error) ==
    [kind |-> "raised", statusCode |-> 0, body |-> NoBody, error |-> error]

----------------------------------------------------------------------------
(* DynamoDB table *)

SameKey(a, b) == a.pk = b.pk /\ a.sk = b.sk

\* table.get_item(Key={"pk": "MOVERS", "sk": d}): the items with that key
GetItem(tbl, d) == {it \in tbl : it.pk = "MOVERS" /\ it.sk = d}

\* Mutant: the put carries no ConditionExpression
ConditionHolds_Unconditional(tbl, item) == TRUE

\* ConditionExpression="attribute_not_exists(pk) AND attribute_not_exists(sk)"
ConditionHolds(tbl, item) == \A it \in tbl : ~SameKey(it, item)

\* Mutant: the put is acknowledged and the item is lost
PutItem_Lost(tbl, item) == tbl

\* PutItem: creates the item, or replaces the item that has its key
PutItem(tbl, item) == {it \in tbl : ~SameKey(it, item)} \cup {item}

----------------------------------------------------------------------------
(* Primary handler: lambdas/ingest_mover/app.py *)

\* _fetch_prev_day_open_close, after the fetch returned `data`
PrevDayOpenClose(data) ==
    IF ~data.apiOK \/ data.results = <<>>
    THEN [ok |-> FALSE, date |-> 0, o |-> 0, c |-> 0]
    ELSE LET r0 == data.results[1]
         IN  [ok |-> TRUE, date |-> DateStr(r0.t), o |-> r0.o, c |-> r0.c]

\* round(_percent_change(o, c), 6) for o # 0, in units of 10^-6 percent:
\* ((c - o) / o) * 100.0, rounded to 6 places
PercentChange6(o, c) == RoundHalfEven((c - o) * (10 ^ 8), o)

Candidate(ticker, o, c) ==
    [Ticker |-> ticker, PercentChange |-> PercentChange6(o, c),
     ClosingPrice |-> PyRound(c, 3, 6)]

\* Mutant: a later candidate that ties replaces the current best
Replaces_OnTie(cand, top) == Abs(cand.PercentChange) >= Abs(top.PercentChange)

\* if top is None or abs(c["PercentChange"]) > abs(top["PercentChange"])
Replaces(cand, top) == Abs(cand.PercentChange) > Abs(top.PercentChange)

\* The loop `for c in successes` from position i on, top being the index of
\* the current best (0: None).
RECURSIVE TopFrom(_, _, _)
TopFrom(successes, i, top) ==
    IF i > Len(successes) THEN top
    ELSE TopFrom(successes, i + 1,
                 IF top = 0 \/ Replaces(successes[i], successes[top]) THEN i ELSE top)

TopIndex(successes) == TopFrom(successes, 1, 0)

HandlerItem(trading_date, top) ==
    [pk |-> "MOVERS", sk |-> trading_date, Date |-> trading_date,
     Ticker |-> top.Ticker,
     PercentChange |-> ToDdbNumber(top.PercentChange, 6, 6),
     ClosingPrice |-> ToDdbNumber(top.ClosingPrice, 3, 6)]

NewHandler ==
    [trading_date |-> 0, o0 |-> 0, c0 |-> 0, successes |-> <<>>,
     failures |-> <<>>, i |-> 1, item |-> NoItem]

CachedBody(trading_date, existing) ==
    [stored |-> FALSE, cached |-> TRUE, message |-> "already_stored",
     tradingDate |-> trading_date,
     item |-> [pk |-> existing.pk, sk |-> existing.sk, Date |-> existing.Date,
               Ticker |-> existing.Ticker,
               PercentChange |-> existing.PercentChange,
               ClosingPrice |-> existing.ClosingPrice],
     successCount |-> 0, failureCount |-> 0, failures |-> <<>>]

\* Mutant: successCount counts the five further fetches only
StoredBody_FurtherOnly(stored, item, successes) ==
    [stored |-> stored, cached |-> FALSE, item |-> item,
     successCount |-> Len(successes) - 1, failureCount |-> 0, failures |-> <<>>]

StoredBody(stored, item, successes) ==
    [stored |-> stored, cached |-> FALSE, item |-> item,
     successCount |-> Len(successes), failureCount |-> 0, failures |-> <<>>]

JitterChoices(a) == IF a.act = "retry" THEN cfg.jitters ELSE {0}

\* limiter.acquire(), then entering the fetch of `symbol`
DoAcquire(p, symbol, date) ==
    \E jitter \in (IF now[p] < limiter[p].next_allowed THEN cfg.jitters ELSE {0}) :
        LET now2 == AcquireWake(limiter[p], now[p], jitter) IN
        /\ limiter' = [limiter EXCEPT ![p] = AcquireSet(@, now2)]
        /\ now' = [now EXCEPT ![p] = now2]
        /\ obs' = [obs EXCEPT ![p] =
              [ObsAcquire(@, now2) EXCEPT !.fetched = Append(@, <<symbol, date>>)]]
        /\ fetch' = [fetch EXCEPT ![p] = NewFetch(symbol, date)]

\* Step 1: limiter.acquire() before the oracle fetch
HAcquire0(p) ==
    /\ pc[p] = "h_acq0"
    /\ DoAcquire(p, WATCHLIST[1], 0)
    /\ pc' = [pc EXCEPT ![p] = "h_fetch0"]
    /\ UNCHANGED <<cfg, store, hs, bs, result>>

\* Step 1: one HTTP attempt of the oracle fetch; an error leaves handler()
HFetch0(p) ==
    /\ pc[p] = "h_fetch0"
    /\ \E r \in PrevResponses(WATCHLIST[1], fetch[p].attempt), delay \in cfg.delays :
        LET a == PrimaryPolicy(r, fetch[p].attempt)
            q == PrevDayOpenClose(r)
        IN  \E jitter \in JitterChoices(a) :
            /\ Attempt(p, r, delay, jitter, a)
            /\ IF a.act = "retry"
               THEN /\ obs' = [obs EXCEPT ![p] = ObsRequest(@, now[p])]
                    /\ UNCHANGED <<pc, hs, result>>
               ELSE IF a.act = "raise" \/ ~q.ok
               THEN /\ obs' = [obs EXCEPT ![p] =
                          [ObsRequest(@, now[p]) EXCEPT !.failed = TRUE]]
                    /\ pc' = [pc EXCEPT ![p] = "raised"]
                    /\ result' = [result EXCEPT ![p] =
                          Raised(IF a.act = "raise" THEN "FetchError" ELSE "NoResults")]
                    /\ UNCHANGED hs
               ELSE /\ obs' = [obs EXCEPT ![p] = ObsRequest(@, now[p])]
                    /\ hs' = [hs EXCEPT ![p] =
                          [@ EXCEPT !.trading_date = q.date, !.o0 = q.o, !.c0 = q.c]]
                    /\ pc' = [pc EXCEPT ![p] = "h_get"]
                    /\ UNCHANGED result
    /\ UNCHANGED <<cfg, store, limiter, bs>>

\* Mutant: the handler never takes the cached return
ExistingFound_Never(existing) == FALSE

\* if existing:
ExistingFound(existing) == existing # {}

\* table.get_item for the resolved date; if the record exists return it
\* (cached); else start step 2 with the oracle's bar.
HCheckExisting(p) ==
    /\ pc[p] = "h_get"
    /\ \E fault \in cfg.ddbFaults :
        LET h == hs[p]
            existing == GetItem(store, h.trading_date)
        IN  IF fault
            THEN /\ pc' = [pc EXCEPT ![p] = "raised"]
                 /\ result' = [result EXCEPT ![p] = Raised("DynamoDB get_item failed")]
                 /\ UNCHANGED <<hs, obs>>
            ELSE IF ExistingFound(existing)
            THEN /\ pc' = [pc EXCEPT ![p] = "done"]
                 /\ result' = [result EXCEPT ![p] =
                       Returned(CachedBody(h.trading_date, CHOOSE it \in existing : TRUE))]
                 /\ obs' = [obs EXCEPT ![p] = [@ EXCEPT !.sawExisting = TRUE]]
                 /\ UNCHANGED hs
            ELSE IF h.o0 = 0
            THEN /\ pc' = [pc EXCEPT ![p] = "raised"]
                 /\ result' = [result EXCEPT ![p] = Raised("Open price is 0")]
                 /\ obs' = [obs EXCEPT ![p] =
                       [@ EXCEPT !.failed = TRUE, !.bad = @ \cup {h.trading_date},
                                 !.sawExisting = existing # {}]]
                 /\ UNCHANGED hs
            ELSE /\ pc' = [pc EXCEPT ![p] = "h_acq"]
                 /\ hs' = [hs EXCEPT ![p] =
                       [@ EXCEPT !.successes = <<Candidate(WATCHLIST[1], h.o0, h.c0)>>,
                                 !.failures = <<>>, !.i = 2]]
                 /\ obs' = [obs EXCEPT ![p] =
                       [@ EXCEPT !.sawExisting = existing # {},
                                 !.bars = <<ObsBar(WATCHLIST[1], h.o0, h.c0)>>]]
                 /\ UNCHANGED result
    /\ UNCHANGED <<cfg, store, now, limiter, fetch, bs>>

\* Step 2, for ticker in WATCHLIST[1:]: limiter.acquire()
HAcquire(p) ==
    /\ pc[p] = "h_acq"
    /\ DoAcquire(p, WATCHLIST[hs[p].i], 0)
    /\ pc' = [pc EXCEPT ![p] = "h_fetch"]
    /\ UNCHANGED <<cfg, store, hs, bs, result>>

\* What the body of the try block ends with, the fetch having ended with
\* action a on response r: "" (a success is appended) or the error caught.
TickerError(h, a, r) ==
    LET q == PrevDayOpenClose(r) IN
    IF a.act = "raise" THEN "FetchError"
    ELSE IF ~q.ok THEN "NoResults"
    ELSE IF q.date # h.trading_date THEN "Date mismatch"
    ELSE IF q.o = 0 THEN "Open price is 0"
    ELSE ""

\* Mutant: the loop over the tickers is left at the first error
AfterTicker_StopOnError(i, err) ==
    IF err # "" \/ i = Len(WATCHLIST) THEN "h_select" ELSE "h_acq"

\* for ticker in WATCHLIST[1:]: after the iteration of WATCHLIST[i], ended
\* with error err or "", the loop goes to the next ticker, if any
AfterTicker(i, err) ==
    IF i = Len(WATCHLIST) THEN "h_select" ELSE "h_acq"

\* Step 2: one HTTP attempt of the fetch of WATCHLIST[i]; the except clause
\* collects an error and the loop goes on.
HFetch(p) ==
    /\ pc[p] = "h_fetch"
    /\ \E r \in PrevResponses(WATCHLIST[hs[p].i], fetch[p].attempt), delay \in cfg.delays :
        LET h == hs[p]
            ticker == WATCHLIST[h.i]
            a == PrimaryPolicy(r, fetch[p].attempt)
            q == PrevDayOpenClose(r)
            err == TickerError(h, a, r)
        IN  \E jitter \in JitterChoices(a) :
            /\ Attempt(p, r, delay, jitter, a)
            /\ IF a.act = "retry"
               THEN /\ obs' = [obs EXCEPT ![p] = ObsRequest(@, now[p])]
                    /\ UNCHANGED <<pc, hs>>
               ELSE /\ obs' = [obs EXCEPT ![p] =
                          IF err = ""
                          THEN [ObsRequest(@, now[p]) EXCEPT
                                  !.bars = Append(@, ObsBar(ticker, q.o, q.c))]
                          ELSE [ObsRequest(@, now[p]) EXCEPT
                                  !.failed = TRUE, !.bad = @ \cup {h.trading_date}]]
                    /\ hs' = [hs EXCEPT ![p] =
                          [@ EXCEPT
                             !.successes = IF err = ""
                                           THEN Append(@, Candidate(ticker, q.o, q.c))
                                           ELSE @,
                             !.failures = IF err = "" THEN @
                                          ELSE Append(@, [Ticker |-> ticker, Error |-> err]),
                             !.i = @ + 1]]
                    /\ pc' = [pc EXCEPT ![p] = AfterTicker(h.i, err)]
    /\ UNCHANGED <<cfg, store, limiter, bs, result>>

\* Mutant: the batch is stored although tickers failed
HasFailures_Ignored(failures) == FALSE

\* if failures:
HasFailures(failures) == failures # <<>>

\* if failures: raise; else pick the top mover and build the item
HSelect(p) ==
    /\ pc[p] = "h_select"
    /\ LET h == hs[p]
           top == TopIndex(h.successes)
       IN  IF HasFailures(h.failures)
           THEN /\ pc' = [pc EXCEPT ![p] = "raised"]
                /\ result' = [result EXCEPT ![p] = Raised("One or more tickers failed")]
                /\ UNCHANGED hs
           ELSE IF top = 0
           THEN /\ pc' = [pc EXCEPT ![p] = "raised"]
                /\ result' = [result EXCEPT ![p] = Raised("no top mover computed")]
                /\ UNCHANGED hs
           ELSE /\ pc' = [pc EXCEPT ![p] = "h_put"]
                /\ hs' = [hs EXCEPT ![p] =
                      [@ EXCEPT !.item = HandlerItem(h.trading_date, h.successes[top])]]
                /\ UNCHANGED result
    /\ UNCHANGED <<cfg, store, now, limiter, fetch, bs, obs>>

\* Mutant: the except clause re-raises every ClientError
OnClientError_Reraise(code) == "raise"

\* except ClientError as e: ConditionalCheckFailedException gives
\* stored = False, any other code is re-raised
OnClientError(code) ==
    IF code = "ConditionalCheckFailedException" THEN "stored_false" ELSE "raise"

\* What table.put_item raises: "" for nothing (the item is written)
PutError(tbl, item, fault) ==
    IF fault THEN "InternalServerError"
    ELSE IF ~ConditionHolds(tbl, item) THEN "ConditionalCheckFailedException"
    ELSE ""

\* table.put_item with the condition, the except clause and the return
HPut(p) ==
    /\ pc[p] = "h_put"
    /\ \E fault \in cfg.ddbFaults :
        LET h == hs[p]
            code == PutError(store, h.item, fault)
        IN
        IF code = ""
        THEN /\ store' = PutItem(store, h.item)
             /\ pc' = [pc EXCEPT ![p] = "done"]
             /\ result' = [result EXCEPT ![p] =
                   Returned(StoredBody(TRUE, h.item, h.successes))]
             /\ obs' = [obs EXCEPT ![p] =
                   [@ EXCEPT !.written = @ \cup {h.item.sk},
                             !.lastPut = [item |-> h.item, bars |-> obs[p].bars]]]
        ELSE /\ IF OnClientError(code) = "stored_false"
                THEN /\ pc' = [pc EXCEPT ![p] = "done"]
                     /\ result' = [result EXCEPT ![p] =
                           Returned(StoredBody(FALSE, h.item, h.successes))]
                ELSE /\ pc' = [pc EXCEPT ![p] = "raised"]
                     /\ result' = [result EXCEPT ![p] = Raised(code)]
             /\ obs' = [obs EXCEPT ![p] =
                   [@ EXCEPT !.conflict = (code = "ConditionalCheckFailedException")]]
             /\ UNCHANGED store
    /\ UNCHANGED <<cfg, now, limiter, fetch, hs, bs>>

----------------------------------------------------------------------------
(* Backfill script: scripts/backfill_to_7_days.py *)

\* Mutant: _get_json gives up on the first response that is not a document
BackfillPolicy_NoRetry(r, attempt) ==
    IF r.status = 200 /\ r.json THEN Act("return", 0) ELSE Act("raise", 0)

\* One iteration of the loop of _get_json: every raise inside the try block,
\* the one for a non-retryable status included, is caught by
\* `except Exception`, which retries while attempts remain.
BackfillPolicy(r, attempt) ==
    LET backoff == Backoff(4, attempt, cfg.max_backoff)
        caught == IF attempt < cfg.max_attempts
                  THEN Act("retry", backoff) ELSE Act("raise", 0)
    IN  IF r.status = 200 THEN (IF r.json THEN Act("return", 0) ELSE caught)
        ELSE IF r.status \in {429, 500, 502, 503, 504} /\ attempt < cfg.max_attempts
        THEN Act("retry", backoff)
        ELSE caught

\* sorted(S) for a set of day numbers
RECURSIVE Sorted(_)
Sorted(S) ==
    IF S = {} THEN <<>>
    ELSE LET m == CHOOSE x \in S : \A y \in S : x <= y
         IN  <<m>> \o Sorted(S \ {m})

\* seq[-n:] for n >= 0 (Python: seq[-0:] is seq[0:], the whole list)
LastN(seq, n) ==
    IF n = 0 \/ n >= Len(seq) THEN seq
    ELSE SubSeq(seq, Len(seq) - n + 1, Len(seq))

\* discover_last_trading_dates, after the fetch returned `data`
DiscoverDates(data, end_date, n) ==
    LET results == data.results
        all == Sorted({DateStr(results[k].t) : k \in 1..Len(results)})
        dates == SelectSeq(all, LAMBDA d : d <= end_date)
    IN  IF results = <<>> THEN [ok |-> FALSE, dates |-> <<>>]
        ELSE IF Len(dates) < n THEN [ok |-> FALSE, dates |-> <<>>]
        ELSE [ok |-> TRUE, dates |-> LastN(dates, n)]

\* fetch_day, after the fetch returned `data`
FetchDay(data) ==
    IF data.results = <<>>
    THEN [ok |-> FALSE, o |-> 0, c |-> 0, actual_date |-> 0]
    ELSE LET bar == data.results[1]
         IN  [ok |-> TRUE, o |-> bar.o, c |-> bar.c, actual_date |-> DateStr(bar.t)]

\* (sym, pct, c) with pct = ((c - o) / o) * 100.0 kept exact as 100 * n / d
Move(sym, o, c) == [sym |-> sym, n |-> c - o, d |-> o, c |-> c]

\* abs(x[1]) > abs(y[1])
AbsPctGreater(x, y) == Abs(x.n) * Abs(y.d) > Abs(y.n) * Abs(x.d)

\* max(moves, key=lambda x: abs(x[1])): the first of the maximal elements
RECURSIVE MaxFrom(_, _, _)
MaxFrom(moves, i, best) ==
    IF i > Len(moves) THEN best
    ELSE MaxFrom(moves, i + 1,
                 IF best = 0 \/ AbsPctGreater(moves[i], moves[best]) THEN i ELSE best)

WinnerIndex(moves) == MaxFrom(moves, 1, 0)

\* _to_ddb_number(pct, places=6) of the exact pct, in units of 10^-6 percent
PctToDdb(m) ==
    IF m.d > 0 THEN RoundHalfUp(m.n * (10 ^ 8), m.d)
    ELSE RoundHalfUp((0 - m.n) * (10 ^ 8), 0 - m.d)

\* the item put_winner builds
BackfillItem(date_str, winner) ==
    [pk |-> "MOVERS", sk |-> date_str, Date |-> date_str,
     Ticker |-> winner.sym,
     PercentChange |-> PctToDdb(winner),
     ClosingPrice |-> ToDdbNumber(winner.c, 3, 2)]

NewBackfill == [dates |-> <<>>, di |-> 1, moves |-> <<>>, si |-> 1]

Completed == [kind |-> "returned", statusCode |-> 0, body |-> NoBody, error |-> ""]

\* discover_last_trading_dates: limiter.wait()
BAcquire0(p) ==
    /\ pc[p] = "b_acq0"
    /\ DoAcquire(p, WATCHLIST[1], 0)
    /\ pc' = [pc EXCEPT ![p] = "b_fetch0"]
    /\ UNCHANGED <<cfg, store, hs, bs, result>>

\* discover_last_trading_dates: one HTTP attempt of the range fetch
BFetch0(p) ==
    /\ pc[p] = "b_fetch0"
    /\ \E r \in RangeResponses(fetch[p].attempt), delay \in cfg.delays :
        LET a == BackfillPolicy(r, fetch[p].attempt)
            q == DiscoverDates(r, cfg.end_date, cfg.days)
        IN  \E jitter \in JitterChoices(a) :
            /\ Attempt(p, r, delay, jitter, a)
            /\ IF a.act = "retry"
               THEN /\ obs' = [obs EXCEPT ![p] = ObsRequest(@, now[p])]
                    /\ UNCHANGED <<pc, bs, result>>
               ELSE IF a.act = "raise" \/ ~q.ok
               THEN /\ obs' = [obs EXCEPT ![p] =
                          [ObsRequest(@, now[p]) EXCEPT !.failed = TRUE]]
                    /\ pc' = [pc EXCEPT ![p] = "raised"]
                    /\ result' = [result EXCEPT ![p] =
                          Raised(IF a.act = "raise" THEN "FetchError"
                                 ELSE "discover failed")]
                    /\ UNCHANGED bs
               ELSE /\ obs' = [obs EXCEPT ![p] = ObsRequest(@, now[p])]
                    /\ bs' = [bs EXCEPT ![p] = [@ EXCEPT !.dates = q.dates, !.di = 1]]
                    /\ pc' = [pc EXCEPT ![p] = "b_exists"]
                    /\ UNCHANGED result
    /\ UNCHANGED <<cfg, store, limiter, hs>>

\* Mutant: no date is taken to be present
AlreadyExists_Never(tbl, date_str) == FALSE

\* already_exists(table, date_str)
AlreadyExists(tbl, date_str) == GetItem(tbl, date_str) # {}

\* for d in dates: if already_exists(table, d): continue
BExists(p) ==
    /\ pc[p] = "b_exists"
    /\ LET b == bs[p] IN
       IF b.di > Len(b.dates)
       THEN /\ pc' = [pc EXCEPT ![p] = "done"]
            /\ result' = [result EXCEPT ![p] = Completed]
            /\ UNCHANGED <<bs, obs>>
       ELSE IF AlreadyExists(store, b.dates[b.di])
       THEN /\ bs' = [bs EXCEPT ![p] = [@ EXCEPT !.di = @ + 1]]
            /\ obs' = [obs EXCEPT ![p] = [@ EXCEPT !.sawExisting = TRUE]]
            /\ UNCHANGED <<pc, result>>
       ELSE /\ bs' = [bs EXCEPT ![p] = [@ EXCEPT !.moves = <<>>, !.si = 1]]
            /\ pc' = [pc EXCEPT ![p] = "b_acq"]
            /\ obs' = [obs EXCEPT ![p] = [@ EXCEPT !.bars = <<>>]]
            /\ UNCHANGED result
    /\ UNCHANGED <<cfg, store, now, limiter, fetch, hs>>

\* fetch_day: limiter.wait()
BAcquire(p) ==
    /\ pc[p] = "b_acq"
    /\ DoAcquire(p, WATCHLIST[bs[p].si], bs[p].dates[bs[p].di])
    /\ pc' = [pc EXCEPT ![p] = "b_fetch"]
    /\ UNCHANGED <<cfg, store, hs, bs, result>>

\* What the iteration for one symbol raises, the fetch having ended with
\* action a on response r ("": nothing, the move is appended).
SymbolError(d, a, r) ==
    LET q == FetchDay(r) IN
    IF a.act = "raise" THEN "FetchError"
    ELSE IF ~q.ok THEN "NoResults"
    ELSE IF q.actual_date # d THEN "Date mismatch"
    ELSE IF q.o = 0 THEN "Open price is 0"
    ELSE ""

\* for sym in WATCHLIST: one HTTP attempt of fetch_day; any error leaves main()
BFetch(p) ==
    /\ pc[p] = "b_fetch"
    /\ LET b == bs[p]
           d == b.dates[b.di]
           sym == WATCHLIST[b.si]
       IN  \E r \in DayResponses(sym, d, fetch[p].attempt), delay \in cfg.delays :
           LET a == BackfillPolicy(r, fetch[p].attempt)
               q == FetchDay(r)
               err == SymbolError(d, a, r)
           IN  \E jitter \in JitterChoices(a) :
               /\ Attempt(p, r, delay, jitter, a)
               /\ IF a.act = "retry"
                  THEN /\ obs' = [obs EXCEPT ![p] = ObsRequest(@, now[p])]
                       /\ UNCHANGED <<pc, bs, result>>
                  ELSE IF err # ""
                  THEN /\ obs' = [obs EXCEPT ![p] =
                             [ObsRequest(@, now[p]) EXCEPT
                                !.failed = TRUE, !.bad = @ \cup {d}]]
                       /\ pc' = [pc EXCEPT ![p] = "raised"]
                       /\ result' = [result EXCEPT ![p] = Raised(err)]
                       /\ UNCHANGED bs
                  ELSE /\ obs' = [obs EXCEPT ![p] =
                             [ObsRequest(@, now[p]) EXCEPT
                                !.bars = Append(@, ObsBar(sym, q.o, q.c))]]
                       /\ bs' = [bs EXCEPT ![p] =
                             [@ EXCEPT !.moves = Append(@, Move(sym, q.o, q.c)),
                                       !.si = @ + 1]]
                       /\ pc' = [pc EXCEPT ![p] =
                             IF b.si = Len(WATCHLIST) THEN "b_put" ELSE "b_acq"]
                       /\ UNCHANGED result
    /\ UNCHANGED <<cfg, store, limiter, hs>>

\* winner = max(...); put_winner(...): the conditional put; its
\* ConditionalCheckFailedException is not caught and leaves main()
BPut(p) ==
    /\ pc[p] = "b_put"
    /\ LET b == bs[p]
           d == b.dates[b.di]
           item == BackfillItem(d, b.moves[WinnerIndex(b.moves)])
       IN  IF PutError(store, item, FALSE) = ""
           THEN /\ store' = PutItem(store, item)
                /\ bs' = [bs EXCEPT ![p] = [@ EXCEPT !.di = @ + 1]]
                /\ pc' = [pc EXCEPT ![p] = "b_exists"]
                /\ obs' = [obs EXCEPT ![p] =
                      [@ EXCEPT !.written = @ \cup {d},
                                !.lastPut = [item |-> item, bars |-> obs[p].bars]]]
                /\ UNCHANGED result
           ELSE /\ pc' = [pc EXCEPT ![p] = "raised"]
                /\ result' = [result EXCEPT ![p] =
                      Raised(PutError(store, item, FALSE))]
                /\ obs' = [obs EXCEPT ![p] = [@ EXCEPT !.conflict = TRUE]]
                /\ UNCHANGED <<store, bs>>
    /\ UNCHANGED <<cfg, now, limiter, fetch, hs>>

----------------------------------------------------------------------------
(* Initial states and specifications *)

\* The state after each invocation has read its environment and built its
\* limiter, under the environment c.
InitWith(c) ==
    /\ cfg = c
    /\ store = c.initStore
    /\ pc = [p \in Procs |->
               IF p \notin c.procs THEN "off"
               ELSE IF p \in Handlers THEN "h_acq0" ELSE "b_acq0"]
    /\ now = [p \in Procs |-> 0]
    /\ limiter = [p \in Procs |-> NewLimiter(c.spacing, 0)]
    /\ fetch = [p \in Procs |-> IdleFetch]
    /\ hs = [p \in Procs |-> NewHandler]
    /\ bs = [p \in Procs |-> NewBackfill]
    /\ result = [p \in Procs |-> NoResult]
    /\ obs = [p \in Procs |-> NewObs]

\* The defaults of the environment variables, in ticks
DefaultCfg ==
    [procs |-> Procs,
     max_attempts |-> 4, base_429 |-> 8, base_5xx |-> 2, max_backoff |-> 40,
     spacing |-> 50,
     jitters |-> {0}, delays |-> {0},
     statuses |-> {200}, badBodies |-> FALSE, transientOnly |-> FALSE,
     prevDates |-> {2}, skews |-> {0}, barOffset |-> 18000000,
     market |-> [s \in {WATCHLIST[k] : k \in 1..Len(WATCHLIST)} |->
                   {[o |-> 100, c |-> 101]}],
     series |-> {<<1, 2, 2>>}, end_date |-> 2, days |-> 2,
     ddbFaults |-> {FALSE},
     initStore |-> {}]

HStep(p) ==
    \/ HAcquire0(p)
    \/ HFetch0(p)
    \/ HCheckExisting(p)
    \/ HAcquire(p)
    \/ HFetch(p)
    \/ HSelect(p)
    \/ HPut(p)

BStep(p) ==
    \/ BAcquire0(p)
    \/ BFetch0(p)
    \/ BExists(p)
    \/ BAcquire(p)
    \/ BFetch(p)
    \/ BPut(p)

Next == \E p \in Procs : HStep(p) \/ BStep(p)

NextHandlers == \E p \in Handlers : HStep(p)

\* The handler up to its cached return, and the backfill
NextFetch ==
    \E p \in Procs :
        \/ HAcquire0(p)
        \/ HFetch0(p)
        \/ HCheckExisting(p)
        \/ BStep(p)

\* Concurrent invocations: two primary handlers and one backfill, upstream
\* answering every request; the bars of NVDA differ from call to call.
RaceCfg ==
    [DefaultCfg EXCEPT
       !.max_attempts = 1,
       !.market = [s \in DOMAIN @ |->
                     IF s = "TSLA" THEN {[o |-> 200, c |-> 215]}
                     ELSE IF s = "NVDA" THEN {[o |-> 100, c |-> 101], [o |-> 100, c |-> 90]}
                     ELSE {[o |-> 100, c |-> 101]}]]

Init == InitWith(RaceCfg)

Spec == Init /\ [][Next]_vars

\* Two overlapping primary handlers, the table failing at times
HandlersCfg ==
    [RaceCfg EXCEPT !.procs = Handlers, !.ddbFaults = BOOLEAN,
                    !.statuses = {200, 404},
                    !.market = [s \in DOMAIN @ |->
                                  IF s = "NVDA" THEN {[o |-> 100, c |-> 101], [o |-> 100, c |-> 90]}
                                  ELSE {[o |-> 100, c |-> 101]}]]

InitHandlers == InitWith(HandlersCfg)

SpecHandlers == InitHandlers /\ [][NextHandlers]_vars

\* An invocation is one sequential flow of blocking calls and bounded
\* sleeps: while it has a step to take, it takes it.
SpecHandlersFair ==
    SpecHandlers /\ \A p \in Handlers : WF_vars(HStep(p))

\* One invocation running alone (a handler, or a backfill), upstream
\* failing at times, resolving bars to a neighbouring date at times, and
\* the bars of each symbol drawn from a few: flat, +3%, -3%, +1%, two whose
\* percent changes differ below the sixth decimal, a zero open, a close
\* with a third decimal.
AggMarket ==
    [s \in {WATCHLIST[k] : k \in 1..Len(WATCHLIST)} |->
       CASE s = "AAPL"  -> {[o |-> 100, c |-> 103], [o |-> 100, c |-> 100], [o |-> 0, c |-> 5]}
         [] s = "MSFT"  -> {[o |-> 100, c |-> 97], [o |-> 100, c |-> 100]}
         [] s = "GOOGL" -> {[o |-> 100, c |-> 101], [o |-> 100, c |-> 100]}
         [] s = "AMZN"  -> {[o |-> 100, c |-> 103], [o |-> 30001, c |-> 30002]}
         [] s = "TSLA"  -> {[o |-> 30000, c |-> 30001], [o |-> 100, c |-> 100]}
         [] OTHER       -> {[o |-> 100, c |-> 100], [o |-> 2000, c |-> 2015], [o |-> 0, c |-> 5]}]

AggCfg(procs) ==
    [DefaultCfg EXCEPT
       !.procs = procs,
       !.max_attempts = 2,
       !.statuses = {200, 503},
       !.prevDates = {2, 3},
       !.skews = {0, 1},
       !.days = 1,
       !.market = AggMarket]

InitAgg == \E p \in Procs \ {"h2"} : InitWith(AggCfg({p}))

SpecAgg == InitAgg /\ [][Next]_vars

\* One invocation running alone with the clock in play: the spacing is one
\* of a few, requests take 0 or more ticks, sleeps draw jitter, upstream
\* answers 200, 429 or 503.
PaceCfg(procs, spacing) ==
    [DefaultCfg EXCEPT
       !.procs = procs,
       !.spacing = spacing,
       !.max_attempts = 2,
       !.statuses = {200, 429, 503},
       !.transientOnly = TRUE,
       !.jitters = 0..JitterMax,
       !.delays = {0, 5},
       !.days = 1]

InitPace ==
    \E p \in Procs \ {"h2"} : \E spacing \in {0, 3, 50} :
        InitWith(PaceCfg({p}, spacing))

SpecPace == InitPace /\ [][Next]_vars

\* One invocation running alone against an upstream that answers with any
\* status, a transport error or an unusable body; MAX_ATTEMPTS is 1 or more.
\* The table already holds the record of date 2 (written by an earlier
\* handler run), so a handler ends after its oracle fetch.
FetchCfg(procs, max_attempts) ==
    [DefaultCfg EXCEPT
       !.procs = procs,
       !.max_attempts = max_attempts,
       !.statuses = {0, 200, 404, 429, 503},
       !.badBodies = TRUE,
       !.end_date = 1,
       !.days = 1,
       !.initStore = {HandlerItem(2, Candidate("AAPL", 100, 101))}]

InitFetch ==
    \E p \in Procs \ {"h2"} : \E max_attempts \in 1..MaxAttemptsBound :
        InitWith(FetchCfg({p}, max_attempts))

SpecFetch == InitFetch /\ [][NextFetch]_vars

\* One invocation running alone against an upstream that throttles (429) or
\* fails (503); MAX_BACKOFF_SECONDS is 2.5 s or the default 10 s.
BackoffCfg(procs, max_attempts, max_backoff) ==
    [FetchCfg(procs, max_attempts) EXCEPT
       !.statuses = {200, 429, 503},
       !.badBodies = FALSE,
       !.max_backoff = max_backoff]

InitBackoff ==
    \E p \in Procs \ {"h2"} : \E max_attempts \in 1..BackoffAttemptsBound :
        \E max_backoff \in {10, 40} :
            InitWith(BackoffCfg({p}, max_attempts, max_backoff))

SpecBackoff == InitBackoff /\ [][NextFetch]_vars

\* A backfill run alone, --end-date 2 or 3 and --days from 0 on, over a
\* table that holds any of the records of days 1..3; the range answer is any
\* series of bars of days 1..3 (in any order, with repeated days), and each
\* request is answered once, with a document or with a 503.
WindowCfg(series, end_date, days, held) ==
    [DefaultCfg EXCEPT
       !.procs = Backfills,
       !.max_attempts = 1,
       !.statuses = {200, 503},
       !.series = {series},
       !.end_date = end_date,
       !.days = days,
       !.initStore = {HandlerItem(d, Candidate("AAPL", 100, 101)) : d \in held}]

InitWindow ==
    \E n \in 0..MaxSeriesLen : \E series \in [1..n -> 1..3] :
        \E end_date \in 2..3 : \E days \in 0..MaxDays : \E held \in SUBSET (1..3) :
            InitWith(WindowCfg(series, end_date, days, held))

NextBackfill == \E p \in Backfills : BStep(p)

SpecWindow == InitWindow /\ [][NextBackfill]_vars

----------------------------------------------------------------------------
(* Claims *)

Body(p) == result[p].body

\* C1: in every step the table keeps at most one item per key (MOVERS, d)
\* and every item already in it stays in it with all its fields unchanged,
\* whatever the interleaving of handlers and backfill.
C1_OneRecordPerDateImmutable ==
    [][/\ \A x \in store' : \A y \in store' : SameKey(x, y) => x = y
       /\ \A x \in store : x \in store']_vars

\* C1 witness: a handler and the backfill both targeted date 2, the backfill
\* wrote it and the handler's conditional write was refused.
C1_Witness ==
    \E p \in Handlers, q \in Backfills :
        /\ obs[p].conflict /\ hs[p].trading_date \in obs[q].written
        /\ Cardinality(GetItem(store, hs[p].trading_date)) = 1

\* C3: a handler whose conditional write was refused returns normally
\* (statusCode 200, stored false, cached false); and of two handlers that
\* both found no record at the existence check and both returned, exactly
\* one reports stored true.
C3_ConflictIsNormalOutcome ==
    /\ \A p \in Handlers :
          obs[p].conflict =>
              /\ pc[p] = "done" /\ result[p].kind = "returned"
              /\ result[p].statusCode = 200
              /\ Body(p).stored = FALSE /\ Body(p).cached = FALSE
    /\ \A p \in Handlers : \A q \in Handlers \ {p} :
          (/\ pc[p] = "done" /\ pc[q] = "done"
           /\ ~Body(p).cached /\ ~Body(q).cached
           /\ hs[p].trading_date = hs[q].trading_date)
          => (Body(p).stored # Body(q).stored)

\* C3 witness: both handlers passed the existence check before either wrote;
\* one stored, the other was refused and returned.
C3_Witness ==
    \E p \in Handlers : \E q \in Handlers \ {p} :
        /\ pc[p] = "done" /\ pc[q] = "done"
        /\ Body(p).stored = TRUE /\ obs[q].conflict
        /\ ~Body(q).cached

\* C4: a backfill whose conditional write is refused does not end in an
\* error (it goes on to the remaining dates).
C4_BackfillConflictNotError ==
    \A p \in Backfills : obs[p].conflict => pc[p] # "raised"

\* C5: the existence check comes after exactly one acquire and one fetch, of
\* the oracle symbol; a handler whose check found the record has returned
\* cached true, stored false with the stored item, has fetched no other
\* symbol, has called acquire once and has written nothing.
C5_ShortCircuit ==
    \A p \in Handlers :
        /\ pc[p] = "h_get" =>
              /\ obs[p].fetched = <<<<WATCHLIST[1], 0>>>>
              /\ obs[p].acqCount = 1
        /\ obs[p].sawExisting =>
              /\ pc[p] = "done" /\ result[p].kind = "returned"
              /\ Body(p).cached = TRUE /\ Body(p).stored = FALSE
              /\ Body(p).tradingDate = hs[p].trading_date
              /\ \E it \in GetItem(store, hs[p].trading_date) :
                    /\ Body(p).item.Ticker = it.Ticker
                    /\ Body(p).item.PercentChange = it.PercentChange
                    /\ Body(p).item.ClosingPrice = it.ClosingPrice
                    /\ Body(p).item.sk = it.sk
              /\ obs[p].fetched = <<<<WATCHLIST[1], 0>>>>
              /\ obs[p].acqCount = 1
              /\ Len(fetch[p].hist) <= cfg.max_attempts
              /\ obs[p].written = {}

\* C5 witness: a handler returned the record another invocation had written.
C5_Witness ==
    \E p \in Handlers :
        /\ obs[p].sawExisting /\ pc[p] = "done" /\ Body(p).cached = TRUE
        /\ \E q \in Procs \ {p} : hs[p].trading_date \in obs[q].written

\* C2: a run in which a symbol's fetch failed after retries, or its bar
\* resolved to another date, or its open was 0, has written no record for
\* that date (a handler: no record at all), whichever symbol it was; running
\* alone, it leaves the table without a record for that date.
C2_AllOrNothing ==
    \A p \in Procs :
        /\ obs[p].bad \cap obs[p].written = {}
        /\ (p \in Handlers /\ obs[p].failed) => obs[p].written = {}
        /\ obs[p].failed => pc[p] \notin {"h_put", "b_put", "done"}
        /\ cfg.procs = {p} => \A d \in obs[p].bad : GetItem(store, d) = {}

\* C2 witness: the first five symbols succeeded, the last one failed, the
\* handler raised and the table is empty.
C2_Witness ==
    \E p \in Handlers :
        /\ pc[p] = "raised" /\ obs[p].failed
        /\ Len(hs[p].successes) = Len(WATCHLIST) - 1
        /\ Len(hs[p].failures) = 1
        /\ hs[p].failures[1].Ticker = WATCHLIST[Len(WATCHLIST)]
        /\ store = {}

\* |percent change| of bar x exceeds that of bar y, exactly (opens > 0)
ExactAbsGreater(x, y) == Abs(x.c - x.o) * y.o > Abs(y.c - y.o) * x.o

\* |percent change| rounded to 6 decimals of bar x exceeds that of bar y
RoundedAbsGreater(x, y) ==
    Abs(PercentChange6(x.o, x.c)) > Abs(PercentChange6(y.o, y.c))

\* bars[k] is the first of bars whose key is the maximum
FirstMax(bars, k, Greater(_, _)) ==
    /\ \A j \in 1..Len(bars) : ~Greater(bars[j], bars[k])
    /\ \A j \in 1..(k - 1) : Greater(bars[k], bars[j])

FullWatchlist(bars) ==
    /\ Len(bars) = Len(WATCHLIST)
    /\ \A k \in 1..Len(bars) : bars[k].sym = WATCHLIST[k]

C7_Spaced ==
    \A p \in cfg.procs :
        /\ limiter[p].min_interval = Max(0, cfg.spacing)
        /\ obs[p].acqCount >= 2 =>
               obs[p].lastAcq - obs[p].prevAcq >= limiter[p].min_interval
        /\ obs[p].acqCount >= 1 =>
               /\ obs[p].lastAcq - obs[p].firstAcq >=
                      (obs[p].acqCount - 1) * limiter[p].min_interval
               /\ limiter[p].next_allowed = obs[p].lastAcq + limiter[p].min_interval

C7_NeverEarly ==
    \A p \in cfg.procs :
        obs'[p].acqCount # obs[p].acqCount =>
            /\ now'[p] >= limiter[p].next_allowed
            /\ now'[p] >= now[p]
            /\ now'[p] <= Max(now[p], limiter[p].next_allowed + JitterMax)

C7_RatePacing == [](C7_Spaced) /\ [][C7_NeverEarly]_vars

\* C7 witness: a caller that made at least four paced calls, the last of
\* them lengthened by jitter, after a fetch that needed a retry.
C7_Witness ==
    \E p \in cfg.procs :
        /\ limiter[p].min_interval > 0
        /\ obs[p].acqCount >= 4
        /\ obs[p].lastAcq - obs[p].prevAcq = limiter[p].min_interval + 1
        /\ obs[p].lastAcq - obs[p].firstAcq >
               (obs[p].acqCount - 1) * limiter[p].min_interval

\* C8: any two consecutive HTTP requests of one invocation are at least
\* min_interval apart, the re-issued requests of a retrying fetch included.
C8_RequestsPaced ==
    \A p \in cfg.procs :
        obs[p].prevReq # NoTime =>
            obs[p].lastReq - obs[p].prevReq >= limiter[p].min_interval

\* C9 (amended): a fetch issues at most max_attempts requests and is over
\* once it has issued max_attempts of them; it returns the JSON of the
\* first 200 response whose body parses and issues no request after it;
\* every response before the last one was a retried failure.
C9_AttemptBound ==
    \A p \in cfg.procs :
        LET f == fetch[p]
            n == Len(f.hist)
            good(h) == h.status = 200 /\ h.json
        IN  f.state # "idle" =>
            /\ n <= cfg.max_attempts
            /\ f.state = "running" => n < cfg.max_attempts /\ f.attempt = n + 1
            /\ f.state \in {"returned", "failed"} => n >= 1 /\ f.attempt = n
            /\ \A i \in 1..(n - 1) : ~good(f.hist[i])
            /\ f.state = "returned" =>
                   /\ good(f.hist[n])
                   /\ f.data.status = 200 /\ f.data.json
            /\ f.state = "failed" => ~good(f.hist[n])
            /\ f.state = "running" /\ n >= 1 => ~good(f.hist[n])

\* C9 witness: a fetch that used all of its three or more attempts and
\* returned on the last one, after a 200 whose body did not parse.
C9_Witness ==
    \E p \in cfg.procs :
        LET f == fetch[p] IN
        /\ cfg.max_attempts >= 3
        /\ Len(f.hist) = cfg.max_attempts
        /\ f.state = "returned"
        /\ \E i \in 1..(Len(f.hist) - 1) : f.hist[i].status = 200

\* C9 as stated: no request is issued after an HTTP 200 response.
C9_Original ==
    \A p \in cfg.procs :
        \A i \in 1..Len(fetch[p].hist) :
            fetch[p].hist[i].status = 200 => i = Len(fetch[p].hist)

\* C10 (amended): a fetch sleeps only between attempts, at most
\* max_attempts - 1 times, and no sleep ceiling exceeds max_backoff; after
\* a 429 on attempt k the handler's ceiling is
\* min(max_backoff, base_429 * 2^(k-1)), the backfill's ceiling after any
\* retried attempt k is min(max_backoff, 1 s * 2^(k-1)).  With the default
\* settings and four 429 answers that is 2, 4, 8 s in the handler and
\* 1, 2, 4 s in the backfill.
C10_BackoffBound ==
    \A p \in cfg.procs :
        LET f == fetch[p]
            all429 == \A i \in 1..Len(f.hist) : f.hist[i].status = 429
        IN  /\ Len(f.sleeps) <= Max(0, cfg.max_attempts - 1)
            /\ Len(f.sleeps) <= Len(f.hist)
            /\ \A k \in 1..Len(f.sleeps) :
                   /\ f.sleeps[k] <= cfg.max_backoff
                   /\ p \in Handlers /\ f.hist[k].status = 429 =>
                          f.sleeps[k] = Min(cfg.max_backoff, cfg.base_429 * (2 ^ (k - 1)))
                   /\ p \in Backfills =>
                          f.sleeps[k] = Min(cfg.max_backoff, 4 * (2 ^ (k - 1)))
            /\ /\ cfg.max_attempts = 4 /\ cfg.max_backoff = 40 /\ cfg.base_429 = 8
               /\ Len(f.hist) = 4 /\ all429
               => f.sleeps = (IF p \in Handlers THEN <<8, 16, 32>> ELSE <<4, 8, 16>>)

\* C10 witness: a handler fetch answered 429 four times whose fourth
\* ceiling was capped at max_backoff (10 s).
C10_Witness ==
    \E p \in cfg.procs \cap Handlers :
        /\ cfg.max_backoff = 40
        /\ Len(fetch[p].sleeps) = 4
        /\ \A i \in 1..4 : fetch[p].hist[i].status = 429
        /\ fetch[p].sleeps[4] = 40

\* C10 as stated: with maxAttempts=4, base429=2, maxBackoff=10 a fetch
\* answered 429 on every attempt has applied the ceilings 2, 4, 8, 10.
C10_Original ==
    \A p \in cfg.procs :
        /\ cfg.max_attempts = 4 /\ cfg.max_backoff = 40 /\ cfg.base_429 = 8
        /\ Len(fetch[p].hist) = 4
        /\ \A i \in 1..4 : fetch[p].hist[i].status = 429
        => fetch[p].sleeps = <<8, 16, 32, 40>>

\* A response that is a transient failure: 429, 5xx, or no response (timeout)
Transient(h) == h.status \in {0, 429, 500, 502, 503, 504}

\* C11: a transient failure on an attempt before the last one is retried and
\* changes nothing the caller sees; a 200 with a document that follows only
\* transient failures ends the fetch, which returns that document, and no
\* fetch error reaches the caller.
C11_Step ==
    \A p \in cfg.procs :
        LET f == fetch[p]
            g == fetch'[p]
            k == Len(f.hist)
            h == g.hist[k + 1]
        IN  f.state = "running" /\ Len(g.hist) = k + 1 =>
            /\ Transient(h) /\ k + 1 < cfg.max_attempts =>
                   /\ g.state = "running" /\ g.attempt = k + 2
                   /\ result'[p] = result[p] /\ pc'[p] = pc[p]
                   /\ hs'[p] = hs[p] /\ bs'[p] = bs[p]
            /\ /\ h.status = 200 /\ h.json
               /\ \A i \in 1..k : Transient(f.hist[i])
               => /\ g.state = "returned"
                  /\ g.data.status = 200 /\ g.data.json
                  /\ result'[p].error # "FetchError"
                  /\ \A i \in 1..Len(hs'[p].failures) :
                         i > Len(hs[p].failures) =>
                             hs'[p].failures[i].Error # "FetchError"

C11_TransientInvisible == [][C11_Step]_vars

\* C11 witness: a fetch that returned on its last attempt, the third or a
\* later one, after a 503 and a 429 or timeout, its caller going on.
C11_Witness ==
    \E p \in cfg.procs :
        /\ fetch[p].state = "returned"
        /\ cfg.max_attempts >= 3
        /\ Len(fetch[p].hist) = cfg.max_attempts
        /\ fetch[p].hist[1].status = 503
        /\ fetch[p].hist[2].status \in {0, 429}
        /\ \A i \in 1..(Len(fetch[p].hist) - 1) : Transient(fetch[p].hist[i])
        /\ result[p].kind # "raised"

\* A response that is neither a document nor a 429 or 5xx: another HTTP
\* status, no response at all, or a 200 whose body does not parse.
OtherFailure(h) ==
    \/ h.status \notin {200, 429, 500, 502, 503, 504}
    \/ h.status = 200 /\ ~h.json

\* C12: another HTTP status, a transport error or a malformed body on an
\* attempt k < max_attempts is retried after the ceiling
\* min(max_backoff, base_5xx * 2^(k-1)); the fetch fails on such a response
\* only when it is the answer to the last attempt.
C12_OtherStatusRetried ==
    \A p \in cfg.procs :
        LET f == fetch[p] IN
        \A k \in 1..Len(f.hist) :
            OtherFailure(f.hist[k]) =>
                /\ k < cfg.max_attempts =>
                       /\ f.state = "running" \/ Len(f.hist) > k
                       /\ Len(f.sleeps) >= k
                       /\ f.sleeps[k] = Min(cfg.max_backoff, cfg.base_5xx * (2 ^ (k - 1)))
                /\ f.state = "failed" /\ k = Len(f.hist) => k = cfg.max_attempts

\* The distinct bar dates <= end_date of the series the range fetch returned
Qualifying(p) ==
    {d \in {DateStr(fetch[p].data.results[k].t) :
               k \in 1..Len(fetch[p].data.results)} : d <= cfg.end_date}

\* the date discovery of p is over, and nothing was fetched since
Discovered(p) ==
    /\ p \in Backfills
    /\ fetch[p].date = 0 /\ fetch[p].state = "returned"

\* C13: discover_last_trading_dates, given a series, fails only when fewer
\* than n distinct bar dates <= end_date exist, and otherwise returns
\* exactly n dates, strictly ascending, all of them such dates and the n
\* most recent of them, for every n >= 0.
C13_WindowedDates ==
    \A p \in cfg.procs :
        Discovered(p) =>
            LET S == Qualifying(p)
                dates == bs[p].dates
                n == cfg.days
            IN  IF result[p].error = "discover failed"
                THEN Cardinality(S) < n
                ELSE /\ Len(dates) = n
                     /\ \A i \in 1..Len(dates) : dates[i] \in S
                     /\ \A i, j \in 1..Len(dates) : i < j => dates[i] < dates[j]
                     /\ \A d \in S : \A i \in 1..Len(dates) :
                            d > dates[i] => \E j \in 1..Len(dates) : dates[j] = d

\* C14: every body the handler returns, cached or not, has the fields
\* stored, cached, tradingDate, item, successCount, failureCount, failures.
C14_PayloadFields ==
    \A p \in cfg.procs \cap Handlers :
        result[p].kind = "returned" =>
            {"stored", "cached", "tradingDate", "item", "successCount",
             "failureCount", "failures"} \subseteq DOMAIN Body(p)

\* the run of p has fetched all six bars, of one date and with non-zero opens
AllSixFetched(p) == Len(hs[p].successes) = Len(WATCHLIST) /\ hs[p].failures = <<>>

Ended(p) == pc[p] \in {"done", "raised"}

HasRecord(d) == GetItem(store, d) # {}

\* C15 (amended): every handler run ends; a run that fetched all six bars
\* ends with a returned result and a record of its date in the table,
\* unless put_item failed with an error other than the failed condition,
\* in which case it ends raising that error; and whenever a run has
\* returned, the table holds a record of its date.
C15_Completion ==
    /\ \A p \in Handlers : (pc[p] # "off") ~> Ended(p)
    /\ \A p \in Handlers :
           AllSixFetched(p) ~>
               /\ Ended(p)
               /\ \/ result[p].kind = "returned" /\ HasRecord(hs[p].trading_date)
                  \/ result[p].kind = "raised" /\ result[p].error = "InternalServerError"
    /\ [](\A p \in Handlers :
             result[p].kind = "returned" => HasRecord(hs[p].trading_date))

\* C15 witness: a run that fetched all six bars and lost the write race has
\* returned, the winner's record being in the table.
C15_Witness ==
    \E p \in cfg.procs \cap Handlers :
        /\ AllSixFetched(p) /\ pc[p] = "done"
        /\ result[p].kind = "returned" /\ ~Body(p).stored /\ ~Body(p).cached
        /\ hs[p].trading_date \notin obs[p].written
        /\ HasRecord(hs[p].trading_date)

\* C15 as stated: a run that fetched all six bars always ends with a
\* returned result and a record of its date in the table.
C15_Original ==
    \A p \in Handlers :
        AllSixFetched(p) ~>
            (result[p].kind = "returned" /\ HasRecord(hs[p].trading_date))

\* C16 (amended): the logical fetches of a handler run are those of the
\* watchlist symbols in watchlist order, each one started right after one
\* acquire() of its own and none repeated.  A run that enters step 2 (its
\* oracle fetch gave a bar, no record was found, the oracle's open is not
\* zero) ends after all six, the oracle's bar being reused as the first
\* success, and a failed symbol does not stop the others from being
\* fetched before the batch is rejected.  A run that ends in step 1 has
\* made the oracle fetch only.
C16_FetchSequence ==
    \A p \in cfg.procs \cap Handlers :
        LET h == hs[p]
            fetched == obs[p].fetched
        IN  /\ obs[p].acqCount = Len(fetched)
            /\ Len(fetched) <= Len(WATCHLIST)
            /\ \A i \in 1..Len(fetched) : fetched[i] = <<WATCHLIST[i], 0>>
            /\ Ended(p) /\ h.successes # <<>> =>
                   /\ Len(fetched) = Len(WATCHLIST)
                   /\ Len(h.successes) + Len(h.failures) = Len(WATCHLIST)
                   /\ h.successes[1].Ticker = WATCHLIST[1]
                   /\ h.failures # <<>> =>
                          /\ result[p].kind = "raised"
                          /\ result[p].error = "One or more tickers failed"
            /\ Ended(p) /\ h.successes = <<>> => Len(fetched) = 1

\* C16 witness: a run whose second symbol failed has fetched all six
\* symbols and was then rejected.
C16_Witness ==
    \E p \in cfg.procs \cap Handlers :
        /\ Ended(p)
        /\ hs[p].failures # <<>> /\ hs[p].failures[1].Ticker = WATCHLIST[2]
        /\ Len(obs[p].fetched) = Len(WATCHLIST)
        /\ result[p].kind = "raised"

\* C16 as stated: a run whose oracle fetch gave a bar and that found no
\* record (no short-circuit) has fetched all six symbols when it ends.
C16_Original ==
    \A p \in cfg.procs \cap Handlers :
        /\ Ended(p)
        /\ hs[p].trading_date # 0
        /\ ~obs[p].sawExisting
        /\ result[p].error # "DynamoDB get_item failed"
        => Len(obs[p].fetched) = Len(WATCHLIST)

\* C17: a backfill run goes through its target dates in ascending order;
\* every date before the current one has a record in the table, this run
\* has written records of such dates only, it fetches bars only of the
\* current date and of dates it has written, never of a date that was
\* present when the run began; a date found present is passed over with
\* no fetch and no write.  So when the run aborts at a date every earlier
\* target date has a record and nothing was written for that or a later one.
C17_State ==
    \A p \in cfg.procs \cap Backfills :
        LET b == bs[p]
            done == {b.dates[j] : j \in 1..Min(b.di - 1, Len(b.dates))}
            fetched == obs[p].fetched
        IN  /\ \A i, j \in 1..Len(b.dates) : i < j => b.dates[i] < b.dates[j]
            /\ b.di <= Len(b.dates) + 1
            /\ \A d \in done : HasRecord(d)
            /\ obs[p].written \subseteq done
            /\ \A i \in 2..Len(fetched) :
                   LET d == fetched[i][2] IN
                   /\ b.di <= Len(b.dates)
                      => d \in done \cup {b.dates[b.di]}
                   /\ b.di > Len(b.dates) => d \in done
                   /\ d \in done => d \in obs[p].written
                   /\ GetItem(cfg.initStore, d) = {}
                   /\ i > 2 => fetched[i - 1][2] <= d

C17_Skip ==
    \A p \in cfg.procs \cap Backfills :
        /\ pc[p] = "b_exists" /\ bs[p].di <= Len(bs[p].dates)
        /\ HasRecord(bs[p].dates[bs[p].di])
        /\ <<pc[p], bs[p]>> # <<pc'[p], bs'[p]>>
        => /\ pc'[p] = "b_exists" /\ bs'[p].di = bs[p].di + 1
           /\ store' = store
           /\ obs'[p].fetched = obs[p].fetched

C17_BackfillOrder == [](C17_State) /\ [][C17_Skip]_vars

\* C17 witness: a run over three dates or more that passed over a date
\* found present, wrote the next one and aborted at the third.
C17_Witness ==
    \E p \in cfg.procs \cap Backfills :
        /\ pc[p] = "raised" /\ bs[p].di = 3 /\ Len(bs[p].dates) >= 3
        /\ obs[p].sawExisting
        /\ obs[p].written = {bs[p].dates[2]}
        /\ ~HasRecord(bs[p].dates[3])

\* C18: a result the handler returns has status 200, failureCount 0, no
\* failures, and successCount 0 when cached and 6 otherwise; a run that has
\* collected a failure has no returned result, and has raised once ended.
C18_ReturnedCounts ==
    \A p \in cfg.procs \cap Handlers :
        /\ result[p].kind = "returned" =>
               /\ result[p].statusCode = 200
               /\ Body(p).failureCount = 0
               /\ Body(p).failures = <<>>
               /\ Body(p).successCount = (IF Body(p).cached THEN 0 ELSE 6)
               /\ Body(p).cached => ~Body(p).stored
               /\ hs[p].failures = <<>>
        /\ hs[p].failures # <<>> =>
               /\ result[p].kind # "returned"
               /\ Ended(p) => result[p].kind = "raised"

\* C18 witness: one run returned from the cached path with successCount 0,
\* another from the full aggregation with successCount 6.
C18_Witness ==
    \E p, q \in cfg.procs \cap Handlers :
        /\ result[p].kind = "returned" /\ Body(p).cached
        /\ Body(p).successCount = 0
        /\ result[q].kind = "returned" /\ ~Body(q).cached
        /\ Body(q).successCount = 6

============================================================================
